---- MODULE Spec2Model ----
(***************************************************************************)
(* compare_folders (src/main.rs): hash every file of the given             *)
(* directories, group the files by digest, sort the groups by digest,      *)
(* optionally keep only the differing groups, and print a table.           *)
(*                                                                         *)
(* Strings are sequences of code points (one-character strings, or a       *)
(* token such as "U+0301" for a code point written by its number).         *)
(* The file system is the environment: it is drawn in Init and stays       *)
(* fixed for the run.                                                      *)
(***************************************************************************)
EXTENDS Integers, Sequences, FiniteSets, TLC

\* ------------------------------------------------------------- bounds

\* At most this many directories on the command line.
MaxDirs == 2

\* At most this many entries in the listings of all directories together.
MaxFiles == 3

\* The column width given with --colwidth.
ColWidth == 5

\* fixed_length alone: the longest input string and the largest width.
MaxStrLen == 3

MaxWidth == 4

\* -------------------------------------------------- program constants

\* " ".repeat(64 - "SHA256".len())
HashColumnWidth == 64

\* ------------------------------------------------------------ options

None == [some |-> FALSE]

Some(v) == [some |-> TRUE, val |-> v]

\* ------------------------------------------------------------ strings

RECURSIVE Flatten(_)
Flatten(ss) == IF ss = <<>> THEN <<>> ELSE Head(ss) \o Flatten(Tail(ss))

Repeat(c, n) == [i \in 1..n |-> c]

\* A byte of an OsStr that is not part of any valid UTF-8 sequence.
RawByte == "0xFF"

\* OsStr::to_str: None when the name is not valid Unicode.
to_str(os_str) ==
    IF \E i \in 1..Len(os_str) : os_str[i] = RawByte THEN None ELSE Some(os_str)

RECURSIVE Decimal(_)
\* format!("{}", n) of an unsigned integer.
Decimal(n) ==
    LET digits == <<"0", "1", "2", "3", "4", "5", "6", "7", "8", "9">>
    IN  IF n < 10 THEN <<digits[n + 1]>>
        ELSE Decimal(n \div 10) \o <<digits[(n % 10) + 1]>>

\* ----------------------------------------------- grapheme clusters

\* The grapheme-cluster-break class of a code point (UAX #29): U+0301 is a
\* combining mark (Extend), U+0600 a prepended sign (Prepend), every other
\* code point of the model, the space included, is of class Other.
GraphemeClass(c) ==
    IF c = "U+0301" THEN "Extend"
    ELSE IF c = "U+0600" THEN "Prepend"
    ELSE "Other"

\* Extended grapheme clusters, graphemes(true): there is no boundary before
\* an Extend code point (GB9) nor after a Prepend one (GB9b), and there is
\* one between any other two code points (GB999).
NoBreak(before, after) ==
    \/ GraphemeClass(after) = "Extend"
    \/ GraphemeClass(before) = "Prepend"

RECURSIVE GraphemesFrom(_, _, _)
GraphemesFrom(s, i, cur) ==
    IF i > Len(s) THEN (IF cur = <<>> THEN <<>> ELSE <<cur>>)
    ELSE IF cur = <<>> \/ NoBreak(cur[Len(cur)], s[i])
         THEN GraphemesFrom(s, i + 1, Append(cur, s[i]))
         ELSE <<cur>> \o GraphemesFrom(s, i + 1, <<s[i]>>)

graphemes(s) == GraphemesFrom(s, 1, <<>>)

\* s.graphemes(true).chain(iter::repeat(padding)).take(len).collect()
fixed_length(s, len, padding) ==
    LET g == graphemes(s)
    IN  Flatten([i \in 1..len |-> IF i <= Len(g) THEN g[i] ELSE padding])

\* ------------------------------------------------------------ digests

HexChars ==
    <<"0", "1", "2", "3", "4", "5", "6", "7", "8", "9", "A", "B", "C", "D", "E", "F">>

\* The digest of a file's content: an opaque injective map to bytes.
sha256_digest(content) == <<(content * 89 + 7) % 256>>

\* HEXUPPER.encode: two upper-case hexadecimal digits per byte.
HexUpper(bytes) ==
    Flatten([i \in 1..Len(bytes) |->
        <<HexChars[(bytes[i] \div 16) + 1], HexChars[(bytes[i] % 16) + 1]>>])

\* The position of a hexadecimal digit in ASCII order ('0'..'9' < 'A'..'F').
CharOrd(c) == CHOOSE i \in 1..Len(HexChars) : HexChars[i] = c

RECURSIVE StrLess(_, _)
\* String::cmp(a, b) = Less: lexicographic order.
StrLess(a, b) ==
    IF b = <<>> THEN FALSE
    ELSE IF a = <<>> THEN TRUE
    ELSE IF Head(a) = Head(b) THEN StrLess(Tail(a), Tail(b))
    ELSE CharOrd(Head(a)) < CharOrd(Head(b))

StrLeq(a, b) == a = b \/ StrLess(a, b)

\* ------------------------------------------------------ the environment

\* The paths that can be given on the command line.  Two equal paths are the
\* same directory (PathBuf equality).
Paths == {"A", "B"}

\* The file names that occur: one with an extension, and a dot file (which
\* has no extension) whose name is not valid Unicode.
FileNames == {<<"a", ".", "t">>, <<".", RawByte>>}

\* What reading a file's content gives: its content, or an IO error.
Unreadable == 0

\* The contents files have: two, told apart by their digests.
Contents == {1, 2}

\* An item of a ReadDir iterator: Err(error), or Ok(DirEntry) of a file with
\* its name and what reading it gives.
ListErr == [ok |-> FALSE, name |-> <<>>, data |-> Unreadable]

Entries == [ok : {TRUE}, name : FileNames, data : Contents \cup {Unreadable}] \cup {ListErr}

\* The listings of at most n entries.  A directory holds each name once.
Listings(n) ==
    {l \in UNION {[1..k -> Entries] : k \in 0..n} :
        \A i, j \in 1..Len(l) : (i # j /\ l[i].ok /\ l[j].ok) => l[i].name # l[j].name}

NoEntries == <<>>

\* What a path can be, with at most n entries when it is a directory.
PathStates(n) ==
    {[kind |-> "notdir", entries |-> NoEntries], [kind |-> "unreadable", entries |-> NoEntries]}
        \cup [kind : {"dir"}, entries : Listings(n)]

\* The strings fixed_length is applied to when it is checked on its own.
CodePoints == {"a", " ", "U+0301", "U+0600"}

Strings == UNION {[1..n -> CodePoints] : n \in 0..MaxStrLen}

\* -------------------------------------------------------------- state

VARIABLES
    directories,    \* args.directories: Vec<PathBuf>
    extension,      \* args.extension: Option<OsString>
    colwidth,       \* args.colwidth: usize
    diffonly,       \* args.diffonly: bool
    fs,             \* the file system: what each path is and lists
    hash_to_files,  \* HashMap<String, Vec<PathBuf>> (line 41)
    hash_vec,       \* Vec<(String, Vec<PathBuf>)> (line 78), shadowing the map
    dirIdx,         \* the position of `for directory in args.directories`
    entIdx,         \* the position of `for file in read_dir`
    counter,        \* the row number (line 94)
    out,            \* the lines printed to standard output
    err,            \* the diagnostics printed to standard error
    pc,             \* where main is
    call            \* a call of fixed_length on its own: s, len and the result

vars ==
    <<directories, extension, colwidth, diffonly, fs, hash_to_files, hash_vec,
      dirIdx, entIdx, counter, out, err, pc, call>>

args == <<directories, extension, colwidth, diffonly, fs>>

NoCall == [s |-> <<>>, len |-> 0, ret |-> None]

Init ==
    /\ directories \in UNION {[1..n -> Paths] : n \in 1..MaxDirs}
    \* paths are only compared with each other: the first one is called A
    /\ directories[1] = "A"
    /\ extension \in {None, Some(<<"t">>)}
    /\ colwidth = ColWidth
    /\ diffonly \in BOOLEAN
    /\ \E a \in PathStates(MaxFiles) :
          \E b \in PathStates(MaxFiles - Len(a.entries)) :
              fs = [p \in Paths |-> IF p = "A" THEN a ELSE b]
    \* a path that is not given is never looked at
    /\ \A p \in Paths :
          (\A i \in 1..Len(directories) : directories[i] # p) => fs[p].kind = "notdir"
    /\ hash_to_files = <<>>
    /\ hash_vec = <<>>
    /\ dirIdx = 1
    /\ entIdx = 1
    /\ counter = 1
    /\ out = <<>>
    /\ err = <<>>
    /\ pc = "scan"
    /\ call = NoCall

\* ---------------------------------------------------------- the scan

\* PathBuf of a directory entry: DirEntry::path() is the directory joined
\* with the entry's name.
Path(dir, name) == [dir |-> dir, name |-> name]

parent(file) == file.dir

file_name(file) == Some(file.name)

\* Path::extension: the part of the file name after its last dot; None when
\* there is no dot, or when the only dot is the first character.
Extension(name) ==
    LET dots == {i \in 1..Len(name) : name[i] = "."}
        last == CHOOSE i \in dots : \A j \in dots : j <= i
    IN  IF dots = {} THEN None
        ELSE IF last = 1 THEN None
        ELSE Some(SubSeq(name, last + 1, Len(name)))

\* Mutant of ExtensionMatches: a file without extension passes any filter.
ExtensionMatches_OrNoExtension(file) ==
    extension = None \/ Extension(file.name) = None \/ extension = Extension(file.name)

\* args.extension == None || args.extension == file.extension() (line 54)
ExtensionMatches(file) ==
    extension = None \/ extension = Extension(file.name)

\* What reading the file gives in the file system.
DataOf(file) ==
    LET l == fs[file.dir].entries
        i == CHOOSE i \in 1..Len(l) : l[i].ok /\ l[i].name = file.name
    IN  l[i].data

\* file_hash: Ok(HEXUPPER.encode(digest)), or the IO error of open or read.
file_hash(file) ==
    IF DataOf(file) = Unreadable THEN None
    ELSE Some(HexUpper(sha256_digest(DataOf(file))))

\* hash_to_files.entry(hash).or_insert(Vec::new())
or_insert(map, hash) ==
    IF hash \in DOMAIN map THEN map ELSE map @@ (hash :> <<>>)

\* Mutant of Push: the group is assigned the file instead of being pushed to.
Push_Overwrite(map, hash, file) ==
    [or_insert(map, hash) EXCEPT ![hash] = <<file>>]

\* Mutant of Push: a new group is created empty, its first file forgotten.
Push_EmptyFirst(map, hash, file) ==
    IF hash \in DOMAIN map THEN [map EXCEPT ![hash] = Append(@, file)]
    ELSE map @@ (hash :> <<>>)

\* Mutant of Push: the file is put in front of its group.
Push_Front(map, hash, file) ==
    [or_insert(map, hash) EXCEPT ![hash] = <<file>> \o @]

\* hash_to_files.entry(hash).or_insert(Vec::new()).push(file) (line 56)
Push(map, hash, file) ==
    [or_insert(map, hash) EXCEPT ![hash] = Append(@, file)]

Diagnostic(kind, dir, name) == [kind |-> kind, dir |-> dir, name |-> name]

Scanning == pc = "scan" /\ dirIdx <= Len(directories)

CurDir == directories[dirIdx]

InDirectory ==
    /\ Scanning
    /\ fs[CurDir].kind = "dir"
    /\ entIdx <= Len(fs[CurDir].entries)

CurEntry == fs[CurDir].entries[entIdx]

CurFile == Path(CurDir, CurEntry.name)

NextDirectory ==
    /\ dirIdx' = dirIdx + 1
    /\ entIdx' = 1

\* The conditions under which main takes each of its branches.
AtNotADirectory == Scanning /\ fs[CurDir].kind = "notdir"

AtReadDirFails == Scanning /\ fs[CurDir].kind = "unreadable"

AtEntryError == InDirectory /\ ~CurEntry.ok

AtEntryFiltered == InDirectory /\ CurEntry.ok /\ ~ExtensionMatches(CurFile)

AtEntryHashed ==
    InDirectory /\ CurEntry.ok /\ ExtensionMatches(CurFile) /\ file_hash(CurFile) # None

AtEntryHashFails ==
    InDirectory /\ CurEntry.ok /\ ExtensionMatches(CurFile) /\ file_hash(CurFile) = None

AtEndOfDirectory ==
    Scanning /\ fs[CurDir].kind = "dir" /\ entIdx > Len(fs[CurDir].entries)

AtPrintHeader == pc = "scan" /\ dirIdx > Len(directories)

AtSortByHash == pc = "sort"

AtRetain == pc = "retain"

AtPrintRow == pc = "rows" /\ counter <= Len(hash_vec)

AtPrintTrailer == pc = "rows" /\ counter > Len(hash_vec)

\* Mutant of NotADirectory: the run ends at the first path that is no directory.
NotADirectory_Exits ==
    /\ AtNotADirectory
    /\ err' = Append(err, Diagnostic("not a directory", CurDir, <<>>))
    /\ pc' = "exit"
    /\ UNCHANGED <<args, hash_to_files, hash_vec, dirIdx, entIdx, counter, out, call>>

\* !directory.is_dir() (lines 45-46)
NotADirectory ==
    /\ AtNotADirectory
    /\ err' = Append(err, Diagnostic("not a directory", CurDir, <<>>))
    /\ NextDirectory
    /\ UNCHANGED <<args, hash_to_files, hash_vec, counter, out, pc, call>>

\* directory.read_dir() is Err (line 65)
ReadDirFails ==
    /\ AtReadDirFails
    /\ err' = Append(err, Diagnostic("could not be read", CurDir, <<>>))
    /\ NextDirectory
    /\ UNCHANGED <<args, hash_to_files, hash_vec, counter, out, pc, call>>

\* the iterator gives Err (line 61)
EntryError ==
    /\ AtEntryError
    /\ err' = Append(err, Diagnostic("IO error while iterating", CurDir, <<>>))
    /\ entIdx' = entIdx + 1
    /\ UNCHANGED <<args, hash_to_files, hash_vec, dirIdx, counter, out, pc, call>>

\* the extension test of line 54 fails
EntryFiltered ==
    /\ AtEntryFiltered
    /\ entIdx' = entIdx + 1
    /\ UNCHANGED <<args, hash_to_files, hash_vec, dirIdx, counter, out, err, pc, call>>

\* file_hash is Ok (line 56)
EntryHashed ==
    /\ AtEntryHashed
    /\ hash_to_files' = Push(hash_to_files, file_hash(CurFile).val, CurFile)
    /\ entIdx' = entIdx + 1
    /\ UNCHANGED <<args, hash_vec, dirIdx, counter, out, err, pc, call>>

\* file_hash is Err (line 57)
EntryHashFails ==
    /\ AtEntryHashFails
    /\ err' = Append(err, Diagnostic("error while hashing", CurDir, CurEntry.name))
    /\ entIdx' = entIdx + 1
    /\ UNCHANGED <<args, hash_to_files, hash_vec, dirIdx, counter, out, pc, call>>

\* the iterator is exhausted: the next directory
EndOfDirectory ==
    /\ AtEndOfDirectory
    /\ NextDirectory
    /\ UNCHANGED <<args, hash_to_files, hash_vec, counter, out, err, pc, call>>

\* ------------------------------------------------------- the report

Space == <<" ">>

Dash == <<"U+2013">>

\* dir.file_name(): the last component of the path.
DirName(dir) == Some(<<dir>>)

\* unwrap_or
UnwrapOr(opt, default) == IF opt.some THEN opt.val ELSE default

BlankLine == [kind |-> "blank", counter |-> 0, hash |-> <<>>, cells |-> <<>>]

\* "#\tSHA256{}\t{}" (lines 72-75): the cells are joined by tabs.
HeaderLine ==
    [kind |-> "header", counter |-> 0,
     hash |-> <<"S", "H", "A", "2", "5", "6">> \o Repeat(" ", HashColumnWidth - 6),
     cells |-> [i \in 1..Len(directories) |->
                  fixed_length(UnwrapOr(to_str(UnwrapOr(DirName(directories[i]), <<>>)),
                                        <<"?", "?", "?">>),
                               colwidth, Space)]]

\* println!() and the header (lines 71-75)
PrintHeader ==
    /\ AtPrintHeader
    /\ out' = <<BlankLine, HeaderLine>>
    /\ pc' = "sort"
    /\ UNCHANGED <<args, hash_to_files, hash_vec, dirIdx, entIdx, counter, err, call>>

\* The orders in which a HashMap's into_iter can give its keys: any.
IterationOrders(map) ==
    {o \in [1..Cardinality(DOMAIN map) -> DOMAIN map] :
        \A i, j \in 1..Cardinality(DOMAIN map) : i # j => o[i] # o[j]}

\* hash_to_files.into_iter().collect() (line 78), given the iteration order
Collect(map, order) ==
    [i \in 1..Len(order) |-> [hash |-> order[i], files |-> map[order[i]]]]

RECURSIVE InsertByHash(_, _)
InsertByHash(x, sorted) ==
    IF sorted = <<>> THEN <<x>>
    ELSE IF StrLess(x.hash, Head(sorted).hash) THEN <<x>> \o sorted
    ELSE <<Head(sorted)>> \o InsertByHash(x, Tail(sorted))

RECURSIVE SortedByHash(_)
SortedByHash(v) ==
    IF v = <<>> THEN <<>> ELSE InsertByHash(Head(v), SortedByHash(Tail(v)))

\* Mutant of sort_unstable_by: the vector is left in the map's order.
sort_unstable_by_Nothing(v) == v

\* sort_unstable_by(|(hash1, _), (hash2, _)| hash1.cmp(&hash2)) (line 79)
sort_unstable_by(v) == SortedByHash(v)

\* lines 78-79: the map becomes a vector, which is sorted; the map is moved
SortByHash ==
    /\ AtSortByHash
    /\ \E order \in IterationOrders(hash_to_files) :
          hash_vec' = sort_unstable_by(Collect(hash_to_files, order))
    /\ hash_to_files' = <<>>
    /\ pc' = "retain"
    /\ UNCHANGED <<args, dirIdx, entIdx, counter, out, err, call>>

\* Mutant of Retained: the names are not compared.
Retained_SizeOnly(files) == Len(files) # Len(directories)

\* The closure of retain (lines 86-87): `||` and `all` evaluate from the left
\* and stop as soon as the result is known.
Retained(files) ==
    \/ Len(files) # Len(directories)
    \/ ~(\A k \in 1..Len(files) : file_name(files[k]) = file_name(files[1]))

\* The closure evaluates files[0] for every file it compares, when the sizes
\* are equal: an index out of bounds panics.
RetainPanics(files) ==
    /\ Len(files) = Len(directories)
    /\ \E k \in 1..Len(files) : Len(files) < 1

\* if args.diffonly { hash_to_files.retain(...) } (lines 83-91)
Retain ==
    /\ AtRetain
    /\ IF diffonly /\ \E i \in 1..Len(hash_vec) : RetainPanics(hash_vec[i].files)
       THEN pc' = "panic" /\ UNCHANGED hash_vec
       ELSE /\ hash_vec' = IF diffonly
                           THEN SelectSeq(hash_vec, LAMBDA g : Retained(g.files))
                           ELSE hash_vec
            /\ pc' = "rows"
    /\ UNCHANGED <<args, hash_to_files, dirIdx, entIdx, counter, out, err, call>>

\* files.iter().filter(|file| file.parent().unwrap() == dir) (line 101)
FilesIn(files, dir) == SelectSeq(files, LAMBDA f : parent(f) = dir)

\* Mutant of ColumnString: several files are shown by the name of the first.
ColumnString_FirstName(files) ==
    IF Len(files) = 0 THEN <<"U+2013">>
    ELSE UnwrapOr(to_str(UnwrapOr(file_name(files[1]), <<>>)),
                  <<"(", "1", " ", "f", "i", "l", "e", ")">>)

\* 0 files: the dash, 1 file: its name, 2+ files: "(X files)" (lines 103-107)
ColumnString(files) ==
    IF Len(files) = 0 THEN Dash
    ELSE IF Len(files) = 1
         THEN UnwrapOr(to_str(UnwrapOr(file_name(files[1]), <<>>)),
                       <<"(", "1", " ", "f", "i", "l", "e", ")">>)
         ELSE <<"(">> \o Decimal(Len(files)) \o <<" ", "f", "i", "l", "e", "s", ")">>

RowLine(n, group) ==
    [kind |-> "row", counter |-> n, hash |-> group.hash,
     cells |-> [i \in 1..Len(directories) |->
                  fixed_length(ColumnString(FilesIn(group.files, directories[i])),
                               colwidth, Space)]]

\* one iteration of `for (hash, files) in hash_to_files` (lines 95-112)
PrintRow ==
    /\ AtPrintRow
    /\ out' = Append(out, RowLine(counter, hash_vec[counter]))
    /\ counter' = counter + 1
    /\ UNCHANGED <<args, hash_to_files, hash_vec, dirIdx, entIdx, err, pc, call>>

\* println!() (line 113)
PrintTrailer ==
    /\ AtPrintTrailer
    /\ out' = Append(out, BlankLine)
    /\ pc' = "done"
    /\ UNCHANGED <<args, hash_to_files, hash_vec, dirIdx, entIdx, counter, err, call>>

Next ==
    \/ NotADirectory
    \/ ReadDirFails
    \/ EntryError
    \/ EntryFiltered
    \/ EntryHashed
    \/ EntryHashFails
    \/ EndOfDirectory
    \/ PrintHeader
    \/ SortByHash
    \/ Retain
    \/ PrintRow
    \/ PrintTrailer

Spec == Init /\ [][Next]_vars

\* Some branch of main can be taken: every action is its condition followed
\* by assignments, so this is ENABLED Next.
CanStep ==
    \/ AtNotADirectory
    \/ AtReadDirFails
    \/ AtEntryError
    \/ AtEntryFiltered
    \/ AtEntryHashed
    \/ AtEntryHashFails
    \/ AtEndOfDirectory
    \/ AtPrintHeader
    \/ AtSortByHash
    \/ AtRetain
    \/ AtPrintRow
    \/ AtPrintTrailer

\* ------------------------------------------------ fixed_length alone

\* main is not run: only fixed_length is called, on any string and width.
InitFL ==
    /\ directories = <<"A">>
    /\ extension = None
    /\ colwidth = ColWidth
    /\ diffonly = FALSE
    /\ fs = [p \in Paths |-> [kind |-> "notdir", entries |-> NoEntries]]
    /\ hash_to_files = <<>>
    /\ hash_vec = <<>>
    /\ dirIdx = 1
    /\ entIdx = 1
    /\ counter = 1
    /\ out = <<>>
    /\ err = <<>>
    /\ pc = "fixed_length"
    /\ call \in [s : Strings, len : 0..MaxWidth, ret : {None}]

CallFixedLength ==
    /\ pc = "fixed_length"
    /\ call.ret = None
    /\ call' = [call EXCEPT !.ret = Some(fixed_length(call.s, call.len, Space))]
    /\ UNCHANGED <<args, hash_to_files, hash_vec, dirIdx, entIdx, counter, out, err, pc>>

NextFL == CallFixedLength

SpecFL == InitFL /\ [][NextFL]_vars

\* ========================================================= properties

\* ---- what the file system holds, whatever the program does with it

Range(s) == {s[i] : i \in 1..Len(s)}

Occurrences(s, x) == Cardinality({i \in 1..Len(s) : s[i] = x})

\* The entries of the directory given at position i (none when the path is
\* not a directory or cannot be read).
EntriesAt(i) ==
    IF fs[directories[i]].kind = "dir" THEN fs[directories[i]].entries ELSE <<>>

\* The places of the scan: directory i of the command line, entry k of it.
Places == {<<i, k>> \in (1..Len(directories)) \X (1..MaxFiles) : k <= Len(EntriesAt(i))}

\* The scan is past place <<i, k>>.
Passed(i, k) == pc # "scan" \/ i < dirIdx \/ (i = dirIdx /\ k < entIdx)

EntryAt(i, k) == EntriesAt(i)[k]

FileAt(i, k) == Path(directories[i], EntryAt(i, k).name)

\* The entry passes the filter and its content can be read.
Hashable(i, k) ==
    /\ EntryAt(i, k).ok
    /\ ExtensionMatches(FileAt(i, k))
    /\ EntryAt(i, k).data # Unreadable

DigestAt(i, k) == HexUpper(sha256_digest(EntryAt(i, k).data))

\* The digests of the files that can be grouped.
Digests == {DigestAt(pl[1], pl[2]) : pl \in {q \in Places : Hashable(q[1], q[2])}}

\* The names of the files with digest h that the directory at position i
\* contributes.
Contribution(i, h) ==
    {EntryAt(i, k).name : k \in {j \in 1..Len(EntriesAt(i)) : Hashable(i, j) /\ DigestAt(i, j) = h}}

\* The groups the program holds: the map's while it scans, the vector's after.
Groups ==
    IF pc \in {"scan", "sort"}
    THEN {[hash |-> h, files |-> hash_to_files[h]] : h \in DOMAIN hash_to_files}
    ELSE Range(hash_vec)

Rows == {i \in 1..Len(out) : out[i].kind = "row"}

\* ---- C2

\* C2: after the scan (and at every moment of it, for the entries scanned so
\* far) every file that passed the filter and was hashed is in the group keyed
\* by its own digest, as often as it was scanned, and in no other group; and
\* the groups hold nothing else.
C2_Partition ==
    pc \in {"scan", "sort"} =>
        LET scanned == {pl \in Places : Passed(pl[1], pl[2]) /\ Hashable(pl[1], pl[2])}
        IN  /\ \A pl \in scanned :
                  LET f == FileAt(pl[1], pl[2])
                      h == DigestAt(pl[1], pl[2])
                  IN  /\ h \in DOMAIN hash_to_files
                      /\ Occurrences(hash_to_files[h], f) =
                            Cardinality({q \in scanned : FileAt(q[1], q[2]) = f})
                      /\ \A h2 \in DOMAIN hash_to_files \ {h} :
                            Occurrences(hash_to_files[h2], f) = 0
            /\ \A h \in DOMAIN hash_to_files : \A f \in Range(hash_to_files[h]) :
                  \E pl \in scanned :
                      /\ FileAt(pl[1], pl[2]) = f
                      /\ DigestAt(pl[1], pl[2]) = h

\* Two directories hold a file of the same content and a file of another
\* content, and all of them are grouped.
C2_Witness ==
    /\ pc = "sort"
    /\ Cardinality(DOMAIN hash_to_files) = 2
    /\ \E h \in DOMAIN hash_to_files :
          /\ Len(hash_to_files[h]) = 2
          /\ hash_to_files[h][1].dir # hash_to_files[h][2].dir

\* ---- C9

\* C9: every group of the mapping (and of the vector made of it) holds at
\* least one file at every point of the run, and the diff filter never
\* panics on its access to the first file of a group.
C9_GroupsNonEmpty ==
    /\ \A h \in DOMAIN hash_to_files : Len(hash_to_files[h]) >= 1
    /\ \A i \in 1..Len(hash_vec) : Len(hash_vec[i].files) >= 1
    /\ pc # "panic"

\* The diff filter has run on a group of one file and on a group of as many
\* files as there are directories.
C9_Witness ==
    /\ pc = "rows"
    /\ diffonly
    /\ Len(directories) = 2
    /\ \E h1, h2 \in Digests :
          /\ Cardinality(UNION {Contribution(i, h1) : i \in 1..2}) = 1
          /\ Contribution(1, h1) # {}
          /\ Contribution(2, h1) = {}
          /\ Contribution(1, h2) # {}
          /\ Contribution(2, h2) # {}

\* ---- C4

\* C4: the rows printed are in non-decreasing order of their digest strings.
C4_RowsSorted ==
    \A i, j \in Rows : i < j => StrLeq(out[i].hash, out[j].hash)

\* Two rows are printed, with --diffonly, and the file with the smaller
\* digest is listed after a file with the larger one.
C4_Witness ==
    /\ pc = "done"
    /\ diffonly
    /\ Cardinality(Rows) = 2
    /\ \E k \in 1..Len(EntriesAt(1)) : \E l \in 1..Len(EntriesAt(1)) :
          /\ k < l
          /\ Hashable(1, k)
          /\ Hashable(1, l)
          /\ StrLess(DigestAt(1, l), DigestAt(1, k))

\* ---- C1

\* Every directory given contributes exactly one file to the group of h, and
\* all these files have the same name.
OnePerDirectorySameName(h) ==
    /\ \A i \in 1..Len(directories) : Cardinality(Contribution(i, h)) = 1
    /\ Cardinality(UNION {Contribution(i, h) : i \in 1..Len(directories)}) = 1

\* C1: with --diffonly the groups left after the filter are exactly the
\* groups built by the scan that are not made of one same-named file per
\* directory given.
C1_DiffOnly ==
    (diffonly /\ pc \in {"rows", "done"}) =>
        /\ \A i, j \in 1..Len(hash_vec) : i # j => hash_vec[i].hash # hash_vec[j].hash
        /\ {hash_vec[i].hash : i \in 1..Len(hash_vec)}
              = {h \in Digests : ~OnePerDirectorySameName(h)}

\* With --diffonly and two directories: a group of one same-named file per
\* directory is dropped, and a group missing from one directory is kept.
C1_Witness ==
    /\ diffonly
    /\ pc = "rows"
    /\ Len(directories) = 2
    /\ directories[1] # directories[2]
    /\ \E h \in Digests : OnePerDirectorySameName(h)
    /\ Len(hash_vec) = 1
    /\ Len(hash_vec[1].files) = 1

\* ---- C3

\* The items that fail: a path that is no directory or cannot be read, a
\* listing error, a file that passes the filter and cannot be read.
FailingItems ==
    Cardinality({i \in 1..Len(directories) : fs[directories[i]].kind # "dir"})
        + Cardinality({pl \in Places : ~EntryAt(pl[1], pl[2]).ok})
        + Cardinality({pl \in Places :
              /\ EntryAt(pl[1], pl[2]).ok
              /\ ExtensionMatches(FileAt(pl[1], pl[2]))
              /\ EntryAt(pl[1], pl[2]).data = Unreadable})

\* In every state: no failing item is in a group; when the scan is over every
\* failing item has its diagnostic and every other entry of every directory
\* is grouped; the run can go on until it is done, and then the table (blank
\* line, header, one row per group, blank line) is printed.
C3_Always ==
    /\ pc \in {"scan", "sort", "retain", "rows", "done"}
    /\ pc = "done" \/ CanStep
    /\ \A g \in Groups : \A f \in Range(g.files) :
          /\ fs[f.dir].kind = "dir"
          /\ \E k \in 1..Len(fs[f.dir].entries) :
                /\ fs[f.dir].entries[k].ok
                /\ fs[f.dir].entries[k].name = f.name
                /\ fs[f.dir].entries[k].data # Unreadable
    /\ pc # "scan" => Len(err) = FailingItems
    /\ pc = "sort" =>
          \A pl \in Places : Hashable(pl[1], pl[2]) =>
              /\ DigestAt(pl[1], pl[2]) \in DOMAIN hash_to_files
              /\ FileAt(pl[1], pl[2]) \in Range(hash_to_files[DigestAt(pl[1], pl[2])])
    /\ pc = "done" =>
          /\ Len(out) = Len(hash_vec) + 3
          /\ out[1].kind = "blank"
          /\ out[2].kind = "header"
          /\ \A n \in 1..Len(hash_vec) :
                out[n + 2].kind = "row" /\ out[n + 2].hash = hash_vec[n].hash
          /\ out[Len(out)].kind = "blank"

\* The phases of main, in their order.
Phase ==
    CASE pc = "scan" -> 0
      [] pc = "sort" -> 1
      [] pc = "retain" -> 2
      [] pc = "rows" -> 3
      [] pc = "done" -> 4
      [] OTHER -> 5

\* Every step goes forward: to the next phase, entry, directory or row.
C3_Progress ==
    \/ Phase < 4 /\ Phase' = Phase + 1
    \/ /\ Phase' = Phase
       /\ \/ dirIdx' > dirIdx
          \/ dirIdx' = dirIdx /\ entIdx' > entIdx
          \/ dirIdx' = dirIdx /\ entIdx' = entIdx /\ counter' > counter

\* C3: every failure is local and no failure ends the run: the failing item
\* adds no file to any group, every other entry and directory is still
\* processed, and the run always goes forward until the table is printed.
C3_FailuresAreLocal == []C3_Always /\ [][C3_Progress]_vars

\* The run is over: the first path was no directory, the second directory
\* had a listing error and a file that could not be read before a file that
\* was grouped and is printed.
C3_Witness ==
    /\ pc = "done"
    /\ Len(directories) = 2
    /\ fs[directories[1]].kind = "notdir"
    /\ \E d \in {"not a directory"} : \E i \in 1..Len(err) : err[i].kind = d
    /\ \E i \in 1..Len(err) : err[i].kind = "IO error while iterating"
    /\ Len(EntriesAt(2)) = 2
    /\ ~EntryAt(2, 1).ok
    /\ Hashable(2, 2)
    /\ Cardinality(Rows) = 1

\* ---- C7

\* name is <stem>.<ext> with a stem that is not empty and no dot in ext.
FinalExtensionIs(name, ext) ==
    \E k \in 2..Len(name) :
        /\ name[k] = "."
        /\ SubSeq(name, k + 1, Len(name)) = ext
        /\ \A j \in (k + 1)..Len(name) : name[j] # "."

\* The entry was handed to file_hash: it is grouped, or its hashing error
\* was reported.
WasHashed(i, k) ==
    \/ \E h \in DOMAIN hash_to_files : FileAt(i, k) \in Range(hash_to_files[h])
    \/ \E n \in 1..Len(err) :
          err[n] = Diagnostic("error while hashing", directories[i], EntryAt(i, k).name)

GroupOfRow(r) == hash_vec[out[r].counter]

\* How many files of the group belong to the directory.
FilesOfDirectory(group, dir) ==
    Cardinality({k \in 1..Len(group.files) : group.files[k].dir = dir})

\* The name of the group's only file of the directory.
NameOfDirectory(group, dir) ==
    LET k == CHOOSE k \in 1..Len(group.files) : group.files[k].dir = dir
    IN  group.files[k].name

CountCell(n) == <<"(">> \o Decimal(n) \o <<" ", "f", "i", "l", "e", "s", ")">>

RECURSIVE SumTo(_, _)
SumTo(f, n) == IF n = 0 THEN 0 ELSE f[n] + SumTo(f, n - 1)

\* C10: in every printed row every file of the group is counted in the cell
\* of exactly one directory, so the counts of the cells add up to the size of
\* the group, and some cell is not the dash.
C10_CountsAddUp ==
    \A r \in Rows :
        LET files == GroupOfRow(r).files
            counts == [i \in 1..Len(directories) |-> Len(FilesIn(files, directories[i]))]
        IN  /\ \A k \in 1..Len(files) :
                  Cardinality({i \in 1..Len(directories) : directories[i] = files[k].dir}) = 1
            /\ SumTo(counts, Len(directories)) = Len(files)
            /\ \E i \in 1..Len(directories) : counts[i] >= 1

\* ---- C8

\* The step appends one file, of the directory being scanned, to the group
\* of h and leaves every other group as it is.
AppendsOneFile(h) ==
    /\ h \in DOMAIN hash_to_files'
    /\ DOMAIN hash_to_files' = DOMAIN hash_to_files \cup {h}
    /\ \A h2 \in DOMAIN hash_to_files \ {h} : hash_to_files'[h2] = hash_to_files[h2]
    /\ LET before == IF h \in DOMAIN hash_to_files THEN hash_to_files[h] ELSE <<>>
           after == hash_to_files'[h]
       IN  /\ Len(after) = Len(before) + 1
           /\ SubSeq(after, 1, Len(before)) = before
           /\ after[Len(after)].dir = directories[dirIdx]

C8_Step ==
    /\ dirIdx' \in {dirIdx, dirIdx + 1}
    /\ pc = "scan" =>
          \/ hash_to_files' = hash_to_files
          \/ \E h \in DOMAIN hash_to_files' : AppendsOneFile(h)
    /\ pc = "sort" =>
          /\ Len(hash_vec') = Cardinality(DOMAIN hash_to_files)
          /\ Range(hash_vec') =
                {[hash |-> h, files |-> hash_to_files[h]] : h \in DOMAIN hash_to_files}
    /\ pc = "retain" =>
          \A i \in 1..Len(hash_vec') : \E j \in 1..Len(hash_vec) : hash_vec'[i] = hash_vec[j]
    /\ pc \in {"rows", "done"} => hash_vec' = hash_vec

\* C8: the directories are scanned in the order given; while they are, a
\* step leaves the mapping as it is or appends one file of the directory
\* being scanned to one group; afterwards sorting keeps every group as it is,
\* the diff filter only removes whole groups, and printing changes nothing.
C8_Accumulates == [][C8_Step]_vars

\* A group got a file from each of two directories and was removed by the
\* diff filter; the other group is to be printed.
C8_Witness ==
    /\ pc = "rows"
    /\ diffonly
    /\ Len(directories) = 2
    /\ directories[1] # directories[2]
    /\ Cardinality(Digests) = 2
    /\ Len(hash_vec) = 1
    /\ \E h \in Digests :
          /\ Contribution(1, h) # {}
          /\ Contribution(2, h) # {}
          /\ h # hash_vec[1].hash

\* ---- C6

\* C6: fixed_length(s, N, " ") is a string of exactly N grapheme clusters:
\* the first N clusters of s when s has as many, and otherwise s followed by
\* spaces.
C6_FixedLength ==
    call.ret.some =>
        LET g == graphemes(call.s)
        IN  /\ Len(graphemes(call.ret.val)) = call.len
            /\ call.ret.val =
                  IF Len(g) >= call.len
                  THEN Flatten(SubSeq(g, 1, call.len))
                  ELSE call.s \o Repeat(" ", call.len - Len(g))

====
